---- MODULE Spec2Model ----
(***************************************************************************)
(* A model of fossil.py: the file-record manifest of a profile (add_file,  *)
(* remove_file), the snapshot engine (take_snapshot) and the restore       *)
(* engine (restore_snapshot), over an abstract file system.                *)
(*                                                                         *)
(* The working directory is HOME: init() draws the tree under ~ and every  *)
(* path of the program (PATH = '.fossil', file.relpath) is resolved        *)
(* against the working directory.                                          *)
(*                                                                         *)
(* A path is the sequence of its components.  A profile file name is the   *)
(* sequence of its dot-separated pieces, <<"current_profile", "xml">>,     *)
(* so that str.split('.') is Head and the empty string '' is <<>>.         *)
(* hashlib.md5 is modelled as collision-free on the modelled contents.     *)
(***************************************************************************)
EXTENDS Integers, Sequences, FiniteSets, TLC

VARIABLES
    files,          \* HOME: relative path -> content of the file, Absent when there is none
    profiles,       \* .fossil/profiles: file name -> [exists, files] (the <file> elements)
    config,         \* .fossil/config.ini: DEFAULTS.DATABASE
    config_parser,  \* the module-level config_parser: DEFAULTS.DATABASE in memory
    DATABASE,       \* the module-level DATABASE, read when the module is loaded
    buffer,         \* .fossil/buffer: [exists, entries], entries: file name -> data
    snapshots,      \* .fossil/snapshots: directory name -> [exists, entries], entries: n -> tarball
    ret,            \* the last step: [op, outcome]
    procs           \* the processes that run take_snapshot side by side: where
                    \* each one is in take_snapshot, and its local variables

vars == <<files, profiles, config, config_parser, DATABASE, buffer, snapshots, ret, procs>>

----------------------------------------------------------------------------
\* Bounds of the model.

\* take_snapshot is not called on a snapshot directory that holds MaxArchives tarballs
MaxArchives == 2

----------------------------------------------------------------------------
\* Values.

\* Python's None: the text of an empty XML element
None == "<None>"
\* no file at the path
Absent == "<absent>"

\* the files under HOME that the calls name, as relative paths
FilePaths == {<<"a">>, <<"d", "b">>}
\* the filepath arguments given to add_file: "./a" names the same file as "a"
InputPaths == FilePaths \cup {<<".", "a">>}
\* the contents each file is given: the two files can hold the same bytes or different ones
Contents == [p \in FilePaths |-> IF p = <<"a">> THEN {"hello", "world"} ELSE {"hello"}]

\* the profile names (without ".xml"): current_profile, work and work.old
ProfileNames == {<<"current_profile">>, <<"work">>, <<"work", "old">>}
\* f'{name}.xml'
xml(name) == name \o <<"xml">>
ProfileFiles == {xml(name) : name \in ProfileNames}
\* path.basename(DATABASE).split('.')[0]
dirname(database) == Head(database)
SnapshotDirs == {dirname(f) : f \in ProfileFiles}

EmptyEntries == [x \in {} |-> x]
NoDir == [exists |-> FALSE, entries |-> EmptyEntries]
EmptyDir == [exists |-> TRUE, entries |-> EmptyEntries]

\* f'{index}' and str(index)
str(i) == ToString(i)

\* path.relpath(path.join(os.getcwd(), filepath), HOME) with the working directory HOME
relpath(filepath) == SelectSeq(filepath, LAMBDA s : s # ".")
\* path.basename(filepath)
basename(filepath) == filepath[Len(filepath)]
\* path.exists(filepath) for a file under HOME
path_exists(fs, filepath) == relpath(filepath) \in DOMAIN fs /\ fs[relpath(filepath)] # Absent

\* File(): a <file> element with index, name, relpath and sha256
File(index, name, rp, sha256) ==
    [index |-> str(index), name |-> name, relpath |-> rp, sha256 |-> sha256]

\* File.from_element: a copy of the element, field by field
from_element(element) ==
    [index |-> element.index, name |-> element.name,
     relpath |-> element.relpath, sha256 |-> element.sha256]

\* a digest that never reads the file: the md5 of no bytes
hexdigest_noupdate(content) == "md5:"
\* hashlib.md5 over the bytes of the file, as hex digits
hexdigest(content) == "md5:" \o content

----------------------------------------------------------------------------
\* a process about to call take_snapshot: root and new_root as in
\* take_snapshot, n the number of filename; reset: the buffer was removed by
\* another process after this one made it
Procs == {"p", "q"}
NotRead == -1
Proc0 == [pc |-> "path_exists_BUFFER", root |-> <<>>, new_root |-> <<>>,
          n |-> NotRead, reset |-> FALSE]

Init ==
    /\ files \in {f \in [FilePaths -> {"hello", "world", Absent}] :
                    \A p \in FilePaths : f[p] \in Contents[p] \cup {Absent}}
    /\ profiles = [f \in ProfileFiles |->
                     [exists |-> f = xml(<<"current_profile">>), files |-> <<>>]]
    /\ config = xml(<<"current_profile">>)
    /\ config_parser = config
    /\ DATABASE = config
    /\ buffer = NoDir
    /\ snapshots = [d \in SnapshotDirs |-> NoDir]
    /\ ret = [op |-> "init", outcome |-> "return"]
    /\ procs = [p \in Procs |-> Proc0]

\* how a call ends: "return", "SystemExit" (sys.exit()) or the exception it raises
Outcome(op, outcome) == ret' = [op |-> op, outcome |-> outcome]

\* a check_database_integrity that never calls sys.exit()
check_database_integrity_skipped == FALSE
\* check_database_integrity: TRUE when it calls sys.exit()
check_database_integrity == config_parser = <<>>

\* whether ET.parse(DATABASE) finds the file
database_exists == DATABASE \in DOMAIN profiles /\ profiles[DATABASE].exists

----------------------------------------------------------------------------
\* Database.add_file

\* the filepath as it was given is compared with the relpath of the records
add_file_raw_compare(filepath) ==
    /\ IF check_database_integrity
       THEN Outcome("add_file", "SystemExit") /\ UNCHANGED profiles
       ELSE IF ~path_exists(files, filepath)
       THEN Outcome("add_file", "return") /\ UNCHANGED profiles
       ELSE IF ~database_exists
       THEN Outcome("add_file", "FileNotFoundError") /\ UNCHANGED profiles
       ELSE LET root == profiles[DATABASE].files
                rp == relpath(filepath)
            IN  /\ Outcome("add_file", "return")
                /\ IF \E i \in 1..Len(root) : root[i].relpath = filepath
                   THEN UNCHANGED profiles
                   ELSE profiles' = [profiles EXCEPT ![DATABASE].files =
                            Append(root, File(Len(root), basename(filepath), rp, None))]
    /\ UNCHANGED <<files, config, config_parser, DATABASE, buffer, snapshots, procs>>

add_file(filepath) ==
    /\ IF check_database_integrity
       THEN Outcome("add_file", "SystemExit") /\ UNCHANGED profiles
       ELSE IF ~path_exists(files, filepath)
       THEN Outcome("add_file", "return") /\ UNCHANGED profiles
       ELSE IF ~database_exists
       THEN Outcome("add_file", "FileNotFoundError") /\ UNCHANGED profiles
       ELSE LET root == profiles[DATABASE].files
                rp == relpath(filepath)
            IN  /\ Outcome("add_file", "return")
                /\ IF \E i \in 1..Len(root) : root[i].relpath = rp
                   THEN UNCHANGED profiles
                   ELSE profiles' = [profiles EXCEPT ![DATABASE].files =
                            Append(root, File(Len(root), basename(filepath), rp, None))]
    /\ UNCHANGED <<files, config, config_parser, DATABASE, buffer, snapshots, procs>>

----------------------------------------------------------------------------
\* Database.remove_file

\* the index taken as counted from 1
new_file_list_from_one(file_list, index) ==
    SelectSeq(file_list, LAMBDA file : file.index # str(index + 1))
\* [file for file in file_list if not file.get('index') == str(index)]
new_file_list(file_list, index) == SelectSeq(file_list, LAMBDA file : file.index # str(index))

\* the elements copied without a new index
enumerate_keep_index(file_list) ==
    [i \in 1..Len(file_list) |-> from_element(file_list[i])]
\* for i, elem in enumerate(new_file_list): file.index = i
enumerate_reindex(file_list) ==
    [i \in 1..Len(file_list) |-> [from_element(file_list[i]) EXCEPT !.index = str(i - 1)]]

\* file_list.pop(index) without the checks: a negative index counts from the
\* end, an index past the end removes nothing
remove_file_pop(index) ==
    /\ IF check_database_integrity
       THEN Outcome("remove_file", "SystemExit") /\ UNCHANGED profiles
       ELSE IF ~database_exists
       THEN Outcome("remove_file", "FileNotFoundError") /\ UNCHANGED profiles
       ELSE LET file_list == profiles[DATABASE].files
                position == IF index < 0 THEN Len(file_list) + index ELSE index
            IN  /\ Outcome("remove_file", "return")
                /\ profiles' = [profiles EXCEPT ![DATABASE].files =
                       enumerate_reindex(new_file_list(file_list, position))]
    /\ UNCHANGED <<files, config, config_parser, DATABASE, buffer, snapshots, procs>>

remove_file(index) ==
    /\ IF check_database_integrity
       THEN Outcome("remove_file", "SystemExit") /\ UNCHANGED profiles
       ELSE IF ~database_exists
       THEN Outcome("remove_file", "FileNotFoundError") /\ UNCHANGED profiles
       ELSE LET file_list == profiles[DATABASE].files
            IN  /\ Outcome("remove_file", "return")
                /\ IF file_list = <<>> \/ index > Len(file_list) - 1 \/ index < 0
                   THEN UNCHANGED profiles
                   ELSE profiles' = [profiles EXCEPT ![DATABASE].files =
                            enumerate_reindex(new_file_list(file_list, index))]
    /\ UNCHANGED <<files, config, config_parser, DATABASE, buffer, snapshots, procs>>

----------------------------------------------------------------------------
\* Database.take_snapshot

\* the buffer kept as it is when it exists
keep_buffer(buf) == IF buf.exists THEN buf ELSE EmptyDir
\* if path.exists(BUFFER): shutil.rmtree(BUFFER); os.mkdir(BUFFER)
reset_buffer(buf) == EmptyDir

\* a file that is missing is left out and the loop goes on
hash_and_copy_skip_missing(elem, fs, acc) ==
    LET file == from_element(elem) IN
    IF ~path_exists(fs, file.relpath)
    THEN acc
    ELSE LET digest == hexdigest(fs[file.relpath])
         IN  [raised |-> FALSE,
              new_root |-> Append(acc.new_root, [file EXCEPT !.sha256 = digest]),
              entries |-> (digest :> fs[file.relpath]) @@ acc.entries]
\* the body of the loop over the <file> elements: open(file.relpath) raises
\* FileNotFoundError when the file is missing; else the file is hashed, the
\* element with its digest is appended to new_root and the file is copied to
\* BUFFER/<digest>
hash_and_copy(elem, fs, acc) ==
    LET file == from_element(elem) IN
    IF ~path_exists(fs, file.relpath)
    THEN [acc EXCEPT !.raised = TRUE]
    ELSE LET digest == hexdigest(fs[file.relpath])
         IN  [raised |-> FALSE,
              new_root |-> Append(acc.new_root, [file EXCEPT !.sha256 = digest]),
              entries |-> (digest :> fs[file.relpath]) @@ acc.entries]

\* for elem in root.iterfind('file'): the loop ends at the first exception
RECURSIVE iterfind(_, _, _)
iterfind(root, fs, acc) ==
    IF root = <<>> \/ acc.raised
    THEN acc
    ELSE iterfind(Tail(root), fs, hash_and_copy(Head(root), fs, acc))

\* the manifest with the digests written over the selected profile as well
write_new_tree_to_database(disk, new_root) ==
    [disk EXCEPT !.buffer.entries = ("profile.xml" :> new_root) @@ @,
                 !.profiles[DATABASE].files = new_root]
\* new_tree.write(path.join(BUFFER, 'profile.xml'))
write_new_tree(disk, new_root) ==
    [disk EXCEPT !.buffer.entries = ("profile.xml" :> new_root) @@ @]

\* a count that starts at one
listdir_len_plus_one(dir) == Cardinality(DOMAIN dir.entries) + 1
\* len(os.listdir(path.join(SNAPSHOTS, dirname))): the n of f'{dirname}[{n}].tar'
listdir_len(dir) == Cardinality(DOMAIN dir.entries)

\* only the hashed files are added, profile.xml is left out
tarball_without_manifest(buf) ==
    [e \in DOMAIN buf.entries \ {"profile.xml"} |-> buf.entries[e]]
\* for elem in os.listdir(BUFFER): fobj.add(path.join(BUFFER, elem))
tarball(buf) == buf.entries

take_snapshot ==
    /\ DATABASE # <<>> =>
         Cardinality(DOMAIN snapshots[dirname(DATABASE)].entries) < MaxArchives
    /\ IF check_database_integrity
       THEN /\ Outcome("take_snapshot", "SystemExit")
            /\ UNCHANGED <<profiles, buffer, snapshots>>
       ELSE IF ~database_exists
       THEN /\ Outcome("take_snapshot", "FileNotFoundError")
            /\ buffer' = reset_buffer(buffer)
            /\ UNCHANGED <<profiles, snapshots>>
       ELSE LET root == profiles[DATABASE].files
                staged == iterfind(root, files,
                            [raised |-> FALSE, new_root |-> <<>>,
                             entries |-> reset_buffer(buffer).entries])
            IN  IF staged.raised
                THEN /\ Outcome("take_snapshot", "FileNotFoundError")
                     /\ buffer' = [exists |-> TRUE, entries |-> staged.entries]
                     /\ UNCHANGED <<profiles, snapshots>>
                ELSE LET disk == write_new_tree(
                                    [profiles |-> profiles,
                                     buffer |-> [exists |-> TRUE, entries |-> staged.entries]],
                                    staged.new_root)
                         dir == IF snapshots[dirname(DATABASE)].exists
                                THEN snapshots[dirname(DATABASE)]
                                ELSE EmptyDir
                         n == listdir_len(dir)
                     IN  /\ Outcome("take_snapshot", "return")
                         /\ profiles' = disk.profiles
                         /\ buffer' = disk.buffer
                         /\ snapshots' = [snapshots EXCEPT ![dirname(DATABASE)] =
                                [exists |-> TRUE,
                                 entries |-> (n :> tarball(disk.buffer)) @@ dir.entries]]
    /\ UNCHANGED <<files, config, config_parser, DATABASE, procs>>

----------------------------------------------------------------------------
\* Database.restore_snapshot

\* the path is not looked at
snapshot_exists_unchecked(snapshot_filepath) == TRUE
\* a snapshot_filepath is <<dirname, n>>: SNAPSHOTS/dirname/dirname[n].tar
\* if not path.exists(snapshot_filepath)
snapshot_exists(snapshot_filepath) ==
    /\ snapshots[snapshot_filepath[1]].exists
    /\ snapshot_filepath[2] \in DOMAIN snapshots[snapshot_filepath[1]].entries

\* for elem in root.iterfind('file'): shutil.copy(path.join(BUFFER, file.sha256), file.relpath)
RECURSIVE copy_back(_, _, _)
copy_back(root, entries, fs) ==
    IF root = <<>>
    THEN fs
    ELSE copy_back(Tail(root), entries,
                   [fs EXCEPT ![Head(root).relpath] = entries[Head(root).sha256]])

restore_snapshot(snapshot_filepath) ==
    /\ IF ~snapshot_exists(snapshot_filepath)
       THEN /\ Outcome("restore_snapshot", "return")
            /\ UNCHANGED <<files, buffer>>
       ELSE LET buf == reset_buffer(buffer) IN
            \* tarfile.open(path.join(BUFFER, 'snapshot.tar'), mode='r')
            IF "snapshot.tar" \notin DOMAIN buf.entries
            THEN /\ Outcome("restore_snapshot", "FileNotFoundError")
                 /\ buffer' = buf
                 /\ UNCHANGED files
            ELSE \* fobj.extractall(HOME): the members are named .fossil/buffer/<name>
                 LET extracted == buf.entries["snapshot.tar"] @@ buf.entries IN
                 IF "profile.xml" \notin DOMAIN extracted
                 THEN /\ Outcome("restore_snapshot", "FileNotFoundError")
                      /\ buffer' = [exists |-> TRUE, entries |-> extracted]
                      /\ UNCHANGED files
                 ELSE /\ Outcome("restore_snapshot", "return")
                      /\ buffer' = [exists |-> TRUE, entries |-> extracted]
                      /\ files' = copy_back(extracted["profile.xml"], extracted, files)
    /\ UNCHANGED <<profiles, config, config_parser, DATABASE, snapshots, procs>>

----------------------------------------------------------------------------
\* The module is loaded by a new process: config.ini is read into
\* config_parser and DATABASE.

load_module ==
    /\ config_parser' = config
    /\ DATABASE' = config
    /\ Outcome("import", "return")
    /\ UNCHANGED <<files, profiles, config, buffer, snapshots, procs>>

----------------------------------------------------------------------------
\* class Profile

NoProfile == [exists |-> FALSE, files |-> <<>>]

create_profile(name) ==
    /\ Outcome("create_profile", "return")
    /\ IF profiles[xml(name)].exists
       THEN UNCHANGED profiles
       ELSE profiles' = [profiles EXCEPT ![xml(name)] = [exists |-> TRUE, files |-> <<>>]]
    /\ UNCHANGED <<files, config, config_parser, DATABASE, buffer, snapshots, procs>>

remove_profile(name) ==
    /\ Outcome("remove_profile", "return")
    /\ IF profiles[xml(name)].exists
       THEN profiles' = [profiles EXCEPT ![xml(name)] = NoProfile]
       ELSE UNCHANGED profiles
    /\ config_parser' = <<>>
    /\ config' = <<>>
    /\ UNCHANGED <<files, DATABASE, buffer, snapshots, procs>>

rename_profile(new_name) ==
    IF check_database_integrity
    THEN /\ Outcome("rename_profile", "SystemExit")
         /\ UNCHANGED <<files, profiles, config, config_parser, DATABASE, buffer, snapshots, procs>>
    ELSE IF profiles[xml(new_name)].exists
    THEN /\ Outcome("rename_profile", "return")
         /\ UNCHANGED <<files, profiles, config, config_parser, DATABASE, buffer, snapshots, procs>>
    ELSE IF ~database_exists
    THEN \* os.rename(DATABASE, ...)
         /\ Outcome("rename_profile", "FileNotFoundError")
         /\ UNCHANGED <<files, profiles, config, config_parser, DATABASE, buffer, snapshots, procs>>
    ELSE /\ profiles' = [profiles EXCEPT ![xml(new_name)] = profiles[DATABASE],
                                         ![DATABASE] = NoProfile]
         /\ config_parser' = xml(new_name)
         \* open(path.join(PATH, 'config.ini'), open='w', encoding='utf-8') raises
         \* TypeError ('open' is no keyword of open): config.ini is not written
         /\ Outcome("rename_profile", "TypeError")
         /\ UNCHANGED <<files, config, DATABASE, buffer, snapshots, procs>>

select_profile(name) ==
    /\ Outcome("select_profile", "return")
    /\ IF ~profiles[xml(name)].exists
       THEN UNCHANGED <<config, config_parser>>
       ELSE /\ config_parser' = xml(name)
            /\ config' = xml(name)
    /\ UNCHANGED <<files, profiles, DATABASE, buffer, snapshots, procs>>

----------------------------------------------------------------------------
\* What happens to the files between two calls.

\* a file under HOME is written
WriteFile(p, content) ==
    /\ files[p] # content
    /\ files' = [files EXCEPT ![p] = content]
    /\ Outcome("external", "return")
    /\ UNCHANGED <<profiles, config, config_parser, DATABASE, buffer, snapshots, procs>>

\* a file under HOME is deleted
DeleteFile(p) ==
    /\ files[p] # Absent
    /\ files' = [files EXCEPT ![p] = Absent]
    /\ Outcome("external", "return")
    /\ UNCHANGED <<profiles, config, config_parser, DATABASE, buffer, snapshots, procs>>

\* a tarball is deleted from a snapshot directory
DeleteArchive(d, n) ==
    /\ snapshot_exists(<<d, n>>)
    /\ snapshots' = [snapshots EXCEPT ![d].entries =
                        [m \in DOMAIN @ \ {n} |-> @[m]]]
    /\ Outcome("external", "return")
    /\ UNCHANGED <<files, profiles, config, config_parser, DATABASE, buffer, procs>>

----------------------------------------------------------------------------
Calls ==
    \/ \E filepath \in InputPaths : add_file(filepath)
    \/ \E index \in -1..Cardinality(FilePaths) : remove_file(index)
    \/ take_snapshot
    \/ \E d \in SnapshotDirs, n \in 0..MaxArchives : restore_snapshot(<<d, n>>)

FileChanges ==
    \/ \E p \in FilePaths : \E content \in Contents[p] : WriteFile(p, content)
    \/ \E p \in FilePaths : DeleteFile(p)

Next ==
    \/ Calls
    \/ FileChanges
    \/ \E d \in SnapshotDirs, n \in 0..MaxArchives : DeleteArchive(d, n)

\* no tarball is ever deleted
NextNoDelete ==
    \/ Calls
    \/ FileChanges


----------------------------------------------------------------------------
\* Database.take_snapshot run by several processes at once: one step for each
\* call that reads or writes the file system. Every process has loaded the
\* same config.ini, so config_parser and DATABASE stand for the copy of each.

goto(p, pc) == [procs EXCEPT ![p].pc = pc]
\* the process has made the buffer and has not yet written its tarball
staging(q) ==
    procs[q].pc \in {"ET_parse", "shutil_copy", "path_exists_SNAPSHOTS",
                     "os_mkdir_SNAPSHOTS", "os_listdir", "tarfile_open"}
raises(p, exception) ==
    /\ procs' = goto(p, "raised")
    /\ Outcome("take_snapshot", exception)

\* check_database_integrity(); if path.exists(BUFFER):
path_exists_BUFFER(p) ==
    /\ procs[p].pc = "path_exists_BUFFER"
    /\ IF check_database_integrity
       THEN procs' = goto(p, "exit") /\ Outcome("take_snapshot", "SystemExit")
       ELSE /\ procs' = goto(p, IF buffer.exists THEN "shutil_rmtree" ELSE "os_mkdir_BUFFER")
            /\ UNCHANGED ret
    /\ UNCHANGED <<files, profiles, config, config_parser, DATABASE, buffer, snapshots>>

\* shutil.rmtree(BUFFER)
shutil_rmtree(p) ==
    /\ procs[p].pc = "shutil_rmtree"
    /\ IF ~buffer.exists
       THEN raises(p, "FileNotFoundError") /\ UNCHANGED buffer
       ELSE /\ buffer' = NoDir
            /\ procs' = [q \in Procs |->
                           IF q = p THEN [procs[q] EXCEPT !.pc = "os_mkdir_BUFFER"]
                           ELSE IF staging(q) THEN [procs[q] EXCEPT !.reset = TRUE]
                           ELSE procs[q]]
            /\ UNCHANGED ret
    /\ UNCHANGED <<files, profiles, config, config_parser, DATABASE, snapshots>>

\* os.mkdir(BUFFER)
os_mkdir_BUFFER(p) ==
    /\ procs[p].pc = "os_mkdir_BUFFER"
    /\ IF buffer.exists
       THEN raises(p, "FileExistsError") /\ UNCHANGED buffer
       ELSE /\ buffer' = EmptyDir
            /\ procs' = goto(p, "ET_parse")
            /\ UNCHANGED ret
    /\ UNCHANGED <<files, profiles, config, config_parser, DATABASE, snapshots>>

\* tree = ET.parse(DATABASE); root = tree.getroot(); new_root = ET.Element('data')
ET_parse(p) ==
    /\ procs[p].pc = "ET_parse"
    /\ IF ~database_exists
       THEN raises(p, "FileNotFoundError")
       ELSE /\ procs' = [procs EXCEPT ![p].pc = "shutil_copy",
                                      ![p].root = profiles[DATABASE].files,
                                      ![p].new_root = <<>>]
            /\ UNCHANGED ret
    /\ UNCHANGED <<files, profiles, config, config_parser, DATABASE, buffer, snapshots>>

\* one turn of the loop: the file is hashed and copied to BUFFER/<digest>;
\* shutil.copy raises FileNotFoundError when BUFFER is gone
shutil_copy(p) ==
    /\ procs[p].pc = "shutil_copy"
    /\ procs[p].root # <<>>
    /\ LET acc == hash_and_copy(Head(procs[p].root), files,
                     [raised |-> FALSE, new_root |-> procs[p].new_root,
                      entries |-> buffer.entries])
       IN  IF acc.raised \/ ~buffer.exists
           THEN raises(p, "FileNotFoundError") /\ UNCHANGED buffer
           ELSE /\ buffer' = [exists |-> TRUE, entries |-> acc.entries]
                /\ procs' = [procs EXCEPT ![p].root = Tail(@),
                                          ![p].new_root = acc.new_root]
                /\ UNCHANGED ret
    /\ UNCHANGED <<files, profiles, config, config_parser, DATABASE, snapshots>>

\* after the loop: new_tree.write(path.join(BUFFER, 'profile.xml'))
new_tree_write(p) ==
    /\ procs[p].pc = "shutil_copy"
    /\ procs[p].root = <<>>
    /\ IF ~buffer.exists
       THEN raises(p, "FileNotFoundError") /\ UNCHANGED <<profiles, buffer>>
       ELSE LET disk == write_new_tree([profiles |-> profiles, buffer |-> buffer],
                                       procs[p].new_root)
            IN  /\ profiles' = disk.profiles
                /\ buffer' = disk.buffer
                /\ procs' = goto(p, "path_exists_SNAPSHOTS")
                /\ UNCHANGED ret
    /\ UNCHANGED <<files, config, config_parser, DATABASE, snapshots>>

\* if not path.exists(path.join(SNAPSHOTS, dirname)):
path_exists_SNAPSHOTS(p) ==
    /\ procs[p].pc = "path_exists_SNAPSHOTS"
    /\ procs' = goto(p, IF snapshots[dirname(DATABASE)].exists
                        THEN "os_listdir" ELSE "os_mkdir_SNAPSHOTS")
    /\ UNCHANGED <<files, profiles, config, config_parser, DATABASE, buffer, snapshots, ret>>

\* os.mkdir(path.join(SNAPSHOTS, dirname))
os_mkdir_SNAPSHOTS(p) ==
    /\ procs[p].pc = "os_mkdir_SNAPSHOTS"
    /\ IF snapshots[dirname(DATABASE)].exists
       THEN raises(p, "FileExistsError") /\ UNCHANGED snapshots
       ELSE /\ snapshots' = [snapshots EXCEPT ![dirname(DATABASE)] = EmptyDir]
            /\ procs' = goto(p, "os_listdir")
            /\ UNCHANGED ret
    /\ UNCHANGED <<files, profiles, config, config_parser, DATABASE, buffer>>

\* filename = f'{dirname}[{len(os.listdir(path.join(SNAPSHOTS, dirname)))}].tar'
os_listdir(p) ==
    /\ procs[p].pc = "os_listdir"
    /\ procs' = [procs EXCEPT ![p].pc = "tarfile_open",
                              ![p].n = listdir_len(snapshots[dirname(DATABASE)])]
    /\ UNCHANGED <<files, profiles, config, config_parser, DATABASE, buffer, snapshots, ret>>

\* with tarfile.open(..., 'w') as fobj: for elem in os.listdir(BUFFER): fobj.add(...)
\* the tarball is made anew before BUFFER is listed: with BUFFER gone an
\* empty tarball is left
tarfile_open(p) ==
    /\ procs[p].pc = "tarfile_open"
    /\ IF ~buffer.exists
       THEN /\ snapshots' = [snapshots EXCEPT ![dirname(DATABASE)].entries =
                               (procs[p].n :> EmptyEntries) @@ @]
            /\ raises(p, "FileNotFoundError")
       ELSE /\ snapshots' = [snapshots EXCEPT ![dirname(DATABASE)].entries =
                               (procs[p].n :> tarball(buffer)) @@ @]
            /\ procs' = goto(p, "done")
            /\ Outcome("take_snapshot", "return")
    /\ UNCHANGED <<files, profiles, config, config_parser, DATABASE, buffer>>

\* two processes, both in take_snapshot, and nothing else going on
NextConcurrent ==
    \E p \in Procs :
        \/ path_exists_BUFFER(p)
        \/ shutil_rmtree(p)
        \/ os_mkdir_BUFFER(p)
        \/ ET_parse(p)
        \/ shutil_copy(p)
        \/ new_tree_write(p)
        \/ path_exists_SNAPSHOTS(p)
        \/ os_mkdir_SNAPSHOTS(p)
        \/ os_listdir(p)
        \/ tarfile_open(p)

\* the two files are tracked (add_file on each) and on disk; the buffer is
\* not there, or is the empty one that a take_snapshot left which raised on
\* its first file
InitConcurrent ==
    /\ files = [p \in FilePaths |-> IF p = <<"a">> THEN "world" ELSE "hello"]
    /\ profiles = [f \in ProfileFiles |->
                     IF f = xml(<<"current_profile">>)
                     THEN [exists |-> TRUE,
                           files |-> <<File(0, "a", <<"a">>, None),
                                       File(1, "b", <<"d", "b">>, None)>>]
                     ELSE NoProfile]
    /\ config = xml(<<"current_profile">>)
    /\ config_parser = config
    /\ DATABASE = config
    /\ buffer \in {NoDir, EmptyDir}
    /\ snapshots = [d \in SnapshotDirs |-> NoDir]
    /\ ret = [op |-> "init", outcome |-> "return"]
    /\ procs = [p \in Procs |-> Proc0]

\* the calls of class Profile, each in a process of its own or in the
\* process of the call before
ProfileCalls ==
    \/ \E name \in ProfileNames : create_profile(name)
    \/ \E name \in ProfileNames : remove_profile(name)
    \/ \E new_name \in ProfileNames : rename_profile(new_name)
    \/ \E name \in ProfileNames : select_profile(name)
    \/ load_module

\* the profiles and the selected profile only
NextPointer == ProfileCalls

\* the profiles created, selected and removed, and the calls of class Database
\* on the file a
NextProfiles ==
    \/ \E name \in ProfileNames : create_profile(name)
    \/ \E name \in ProfileNames : remove_profile(name)
    \/ \E name \in ProfileNames : select_profile(name)
    \/ load_module
    \/ add_file(<<"a">>)
    \/ remove_file(0)
    \/ take_snapshot

\* every file holds "hello"
InitProfiles == Init /\ \A p \in FilePaths : files[p] = "hello"

----------------------------------------------------------------------------
\* The properties.

\* the <file> elements of the selected profile
live == profiles[DATABASE].files
\* the tarballs of the selected profile's snapshot directory: n -> tarball
archives == snapshots[dirname(DATABASE)].entries
\* the step is a call of take_snapshot
TakeSnapshotStep == ret'.op = "take_snapshot"
\* the step is a call of take_snapshot that returns
TakeSnapshotReturns == ret'.op = "take_snapshot" /\ ret'.outcome = "return"
\* the tarball that the step's take_snapshot wrote, dirname[n].tar with n the
\* number of tarballs the directory held
written == archives'[Cardinality(DOMAIN archives)]
\* a tracked file of the selected profile is not on disk
SourceMissing == \E i \in 1..Len(live) : ~path_exists(files, live[i].relpath)
\* the digests a manifest copy names
digests(manifest) == {manifest[i].sha256 : i \in 1..Len(manifest)}

\* C1: restore_snapshot on a tarball that take_snapshot wrote returns and
\* leaves every file of the tarball's manifest at its relpath with the content
\* the tarball holds for it.
C1_RoundTrip ==
    [][\A d \in SnapshotDirs, n \in 0..MaxArchives :
         (snapshot_exists(<<d, n>>) /\ restore_snapshot(<<d, n>>)) =>
            LET tar == snapshots[d].entries[n]
                manifest == tar["profile.xml"]
            IN  /\ ret'.outcome = "return"
                /\ \A i \in 1..Len(manifest) :
                       files'[manifest[i].relpath] = tar[manifest[i].sha256]]_vars

\* C2: in every reachable state the record at position k of a profile has
\* the index k (counted from 0).
C2_IndexContiguity ==
    \A f \in ProfileFiles :
        \A k \in 1..Len(profiles[f].files) : profiles[f].files[k].index = str(k - 1)

\* remove_file has left a record that was added after another one
C2_Witness ==
    /\ ret.op = "remove_file"
    /\ Len(live) = 1
    /\ live[1].relpath = <<"d", "b">>
    /\ live[1].index = "0"

C4_DeletedFileOmitted ==
    [][(TakeSnapshotStep /\ SourceMissing) =>
          /\ ret'.outcome = "return"
          /\ LET manifest == written["profile.xml"]
                 present == SelectSeq(live, LAMBDA file : path_exists(files, file.relpath))
             IN  /\ Len(manifest) = Len(present)
                 /\ \A i \in 1..Len(present) : manifest[i].relpath = present[i].relpath]_vars

\* C5: every tarball holds profile.xml, one entry per digest its manifest
\* names, and nothing else.
C5_DedupWithinSnapshot ==
    \A d \in SnapshotDirs : \A n \in DOMAIN snapshots[d].entries :
        LET tar == snapshots[d].entries[n] IN
        /\ "profile.xml" \in DOMAIN tar
        /\ DOMAIN tar = {"profile.xml"} \cup digests(tar["profile.xml"])

\* the second snapshot holds two records with one digest and one blob, after
\* a first snapshot that staged a blob of another digest
C5_Witness ==
    /\ ret = [op |-> "take_snapshot", outcome |-> "return"]
    /\ DOMAIN archives = {0, 1}
    /\ "md5:world" \in DOMAIN archives[0]
    /\ Len(archives[1]["profile.xml"]) = 2
    /\ digests(archives[1]["profile.xml"]) = {"md5:hello"}
    /\ DOMAIN archives[1] = {"profile.xml", "md5:hello"}

\* C6: the manifest in the tarball that take_snapshot writes lists the live
\* records in their order, each with a digest, and the tarball holds under
\* that digest the content the record's file had.
C6_ManifestCopy ==
    [][TakeSnapshotReturns =>
          LET manifest == written["profile.xml"] IN
          /\ Len(manifest) = Len(live)
          /\ \A i \in 1..Len(live) :
                /\ manifest[i].index = live[i].index
                /\ manifest[i].name = live[i].name
                /\ manifest[i].relpath = live[i].relpath
                /\ manifest[i].sha256 # None
                /\ manifest[i].sha256 \in DOMAIN written
                /\ written[manifest[i].sha256] = files[live[i].relpath]]_vars

\* a snapshot of two files with different contents
C6_Witness ==
    /\ ret = [op |-> "take_snapshot", outcome |-> "return"]
    /\ \E n \in DOMAIN archives :
          /\ Len(archives[n]["profile.xml"]) = 2
          /\ Cardinality(digests(archives[n]["profile.xml"])) = 2

\* C7: take_snapshot, returning or not, leaves every profile as it was, and
\* no live record has a digest.
C7_LiveManifestUnchanged ==
    [][TakeSnapshotStep =>
          /\ profiles' = profiles
          /\ \A f \in ProfileFiles : \A i \in 1..Len(profiles'[f].files) :
                profiles'[f].files[i].sha256 = None]_vars

\* take_snapshot has returned on a profile of two records
C7_Witness ==
    /\ ret = [op |-> "take_snapshot", outcome |-> "return"]
    /\ Len(live) = 2
    /\ DOMAIN archives # {}

\* C8: a take_snapshot that returns adds exactly one tarball to the directory
\* and leaves every tarball that was there as it was.
C8_SnapshotImmutability ==
    [][TakeSnapshotReturns =>
          /\ Cardinality(DOMAIN archives') = Cardinality(DOMAIN archives) + 1
          /\ \A n \in DOMAIN archives :
                n \in DOMAIN archives' /\ archives'[n] = archives[n]]_vars

\* C9: with no tarball ever deleted, a take_snapshot that returns names its
\* tarball with the number of tarballs the directory held, a number greater
\* than every number in the directory.
C9_SequenceNumbering ==
    [][TakeSnapshotReturns =>
          LET n == Cardinality(DOMAIN archives) IN
          /\ n \notin DOMAIN archives
          /\ DOMAIN archives' = DOMAIN archives \cup {n}
          /\ \A m \in DOMAIN archives : m < n]_vars

\* the second snapshot of the profile
C9_Witness ==
    /\ ret = [op |-> "take_snapshot", outcome |-> "return"]
    /\ DOMAIN archives = {0, 1}

\* C10: after take_snapshot the buffer directory does not exist.
C10_BufferPurged == ret.op = "take_snapshot" => ~buffer.exists


C12_RemoveNoOp ==
    [][\A index \in -1..Cardinality(FilePaths) :
         (database_exists /\ (index < 0 \/ index >= Len(live)) /\ remove_file(index)) =>
            profiles' = profiles]_vars

\* remove_file has returned on a profile that still holds every file
C12_Witness ==
    /\ ret = [op |-> "remove_file", outcome |-> "return"]
    /\ Len(live) = Cardinality(FilePaths)

\* C13: add_file with a filepath whose relpath a record already has leaves
\* every profile as it was, with one record of that relpath.
C13_AddIdempotent ==
    [][\A filepath \in InputPaths :
         LET rp == SelectSeq(filepath, LAMBDA s : s # ".") IN
         (/\ database_exists
          /\ \E i \in 1..Len(live) : live[i].relpath = rp
          /\ add_file(filepath)) =>
            /\ profiles' = profiles
            /\ Cardinality({i \in 1..Len(live') : live'[i].relpath = rp}) = 1]_vars

\* add_file has returned on a profile whose only record is the file a
C13_Witness ==
    /\ ret = [op |-> "add_file", outcome |-> "return"]
    /\ Len(live) = 1
    /\ live[1].relpath = <<"a">>
    /\ path_exists(files, <<"a">>)

\* C14: no two records of a profile have the same relpath.
C14_PathUniqueness ==
    \A f \in ProfileFiles :
        \A i, j \in 1..Len(profiles[f].files) :
            profiles[f].files[i].relpath = profiles[f].files[j].relpath => i = j

\* add_file has returned on a profile that holds a record of every file
C14_Witness ==
    /\ ret = [op |-> "add_file", outcome |-> "return"]
    /\ Len(live) = 2
    /\ live[1].relpath # live[2].relpath

\* C16: restore_snapshot with a path that is no tarball returns and leaves
\* the files, the profiles, the buffer, the snapshots and the configuration
\* as they were.
C16_RestoreMissingPath ==
    [][\A d \in SnapshotDirs, n \in 0..MaxArchives :
         (n \notin DOMAIN snapshots[d].entries /\ restore_snapshot(<<d, n>>)) =>
            /\ ret'.outcome = "return"
            /\ UNCHANGED <<files, profiles, buffer, snapshots, config>>]_vars

\* restore_snapshot has returned with the blobs of a snapshot still in the buffer
C16_Witness ==
    /\ ret = [op |-> "restore_snapshot", outcome |-> "return"]
    /\ buffer.exists
    /\ "md5:hello" \in DOMAIN buffer.entries


\* C15: with no profile selected in config.ini, take_snapshot, add_file and
\* remove_file end in sys.exit() and leave the files, the profiles, the
\* buffer, the snapshots and config.ini as they were.
C15_NoActiveProfile ==
    [][(config = <<>> /\ ret'.op \in {"take_snapshot", "add_file", "remove_file"}) =>
          /\ ret'.outcome = "SystemExit"
          /\ UNCHANGED <<files, profiles, buffer, snapshots, config>>]_vars

\* take_snapshot has exited with no profile selected, and the buffer of an
\* earlier snapshot is still there
C15_Witness ==
    /\ ret = [op |-> "take_snapshot", outcome |-> "SystemExit"]
    /\ config = <<>>
    /\ buffer.exists
    /\ "profile.xml" \in DOMAIN buffer.entries

\* C18: a take_snapshot that returns writes into a directory that no other
\* profile uses, and leaves the snapshot directory of every other profile as
\* it was.
C18_SnapshotsNeverMix ==
    [][TakeSnapshotReturns =>
          \A f \in ProfileFiles :
              (f # DATABASE /\ profiles[f].exists) =>
                  /\ dirname(f) # dirname(DATABASE)
                  /\ snapshots'[dirname(f)] = snapshots[dirname(f)]]_vars

\* C19: config.ini names no profile or the file of a profile that exists.
C19_ActiveProfileValid ==
    config = <<>> \/ (config \in DOMAIN profiles /\ profiles[config].exists)

\* the tarball holds its manifest copy, and the hashed files are the ones
\* the manifest copy names, each under its own digest
matches(tar) ==
    /\ "profile.xml" \in DOMAIN tar
    /\ DOMAIN tar \ {"profile.xml"} = digests(tar["profile.xml"])
    /\ \A e \in DOMAIN tar \ {"profile.xml"} : hexdigest(tar[e]) = e
\* every process has returned from take_snapshot
AllReturned == \A p \in Procs : procs[p].pc = "done"
\* the processes that returned took the same number for their tarball
SameNumber == \A p, q \in Procs : procs[p].n = procs[q].n

\* C17: two take_snapshot calls side by side go wrong in the two ways named,
\* and only so: when both have returned, the directory holds a single tarball
\* exactly when both read the same number, and two otherwise; and a tarball
\* that does not match its manifest copy was written by a process whose
\* buffer another process removed after it was made.
C17_ConcurrentSnapshots ==
    /\ AllReturned =>
         Cardinality(DOMAIN archives) = (IF SameNumber THEN 1 ELSE Cardinality(Procs))
    /\ \A n \in DOMAIN archives :
         ~matches(archives[n]) =>
             \E p \in Procs : /\ procs[p].pc \in {"done", "raised"}
                              /\ procs[p].n = n
                              /\ procs[p].reset

\* both calls have returned and there is one tarball
C17_Witness ==
    /\ AllReturned
    /\ SameNumber
    /\ Cardinality(DOMAIN archives) = 1

\* a call has returned and its tarball names two digests and holds no file
\* of either
C17_ArchiveMismatch ==
    \E p \in Procs :
        /\ procs[p].pc = "done"
        /\ procs[p].n \in DOMAIN archives
        /\ "profile.xml" \in DOMAIN archives[procs[p].n]
        /\ Len(archives[procs[p].n]["profile.xml"]) = Cardinality(FilePaths)
        /\ DOMAIN archives[procs[p].n] = {"profile.xml"}
        /\ procs[p].reset

Spec == Init /\ [][Next]_vars
SpecNoDelete == Init /\ [][NextNoDelete]_vars
SpecPointer == InitProfiles /\ [][NextPointer]_vars
SpecProfiles == InitProfiles /\ [][NextProfiles]_vars
SpecConcurrent == InitConcurrent /\ [][NextConcurrent]_vars
====
